---- MODULE Spec2Model ----
(***************************************************************************)
(* Model of the DTC resolution engine of dtc-database:                     *)
(*   python/dtc_perfect.py   PerfectDTCDatabase (get_for_manufacturer,     *)
(*                           get_all_definitions, get_smart,               *)
(*                           get_manufacturer_from_vin)                    *)
(*   python/dtc_database.py  DTCDatabase (get_dtc, get_description with    *)
(*                           its LRU description cache, set_locale)        *)
(* The definition store is the table dtc_definitions written by            *)
(* build_database.py / build-perfect-database.py; it is read-only while    *)
(* the engine runs.                                                        *)
(***************************************************************************)
EXTENDS Integers, Sequences, FiniteSets, TLC

VARIABLES
    store,       \* rows of dtc_definitions
    scan_first,  \* rows an unordered SELECT meets first among the rows of one code and locale
    locale,      \* DTCDatabase.locale
    cache_size,  \* DTCDatabase.cache_size
    cache,       \* DTCDatabase.cache: OrderedDict as a sequence of [key, value], oldest first
    last,        \* the call that ended last: operation, arguments as given, outcome
    probe,       \* an earlier get_description call kept for comparison (or NoProbe)
    used         \* the cache_size + 1 cache keys that get_description used last (hit or
                 \* inserted) since the cache was last empty, least recently used first

vars == <<store, scan_first, locale, cache_size, cache, last, probe, used>>

----------------------------------------------------------------------------
(* Bounds of the model *)

\* Largest number of rows in a store
MaxRows == 2
\* Largest configured cache capacity
MaxCacheSize == 2
\* Largest number of characters of a VIN after its third
MaxVinTail == 1
\* Largest number of rows in a store read by get_smart
MaxSmartRows == 3

----------------------------------------------------------------------------
(* Values *)

\* Python's None
None == "<None>"
\* The outcome of a call that ended in an exception (AttributeError)
Raised == "<AttributeError>"

\* The manufacturer key of the generic rows
GENERIC == "GENERIC"

\* build_database.py writes every row with locale 'en'
DefaultLocale == "en"

\* GM brands can use generic GM codes
GM_BRANDS_without_GEO == {"CHEVY", "BUICK", "CADILLAC", "GMC", "PONTIAC", "OLDSMOBILE", "SATURN"}
GM_BRANDS == {"CHEVY", "BUICK", "CADILLAC", "GMC", "PONTIAC", "OLDSMOBILE", "SATURN", "GEO"}

\* str.upper() left out: every string is returned as it was given
Upper_unchanged(s) == s

\* str.upper() on the codes and manufacturers the model passes in
Upper(s) ==
    CASE s = "ford"    -> "FORD"
      [] s = " ford "  -> " FORD "
      [] s = "p0171"   -> "P0171"
      [] s = "p1690"   -> "P1690"
      [] OTHER         -> s

\* str.upper() on one character
UpperChar(ch) ==
    CASE ch = "a" -> "A" [] ch = "b" -> "B" [] ch = "c" -> "C" [] ch = "d" -> "D"
      [] ch = "e" -> "E" [] ch = "f" -> "F" [] ch = "g" -> "G" [] ch = "h" -> "H"
      [] ch = "i" -> "I" [] ch = "j" -> "J" [] ch = "k" -> "K" [] ch = "l" -> "L"
      [] ch = "m" -> "M" [] ch = "n" -> "N" [] ch = "o" -> "O" [] ch = "p" -> "P"
      [] ch = "q" -> "Q" [] ch = "r" -> "R" [] ch = "s" -> "S" [] ch = "t" -> "T"
      [] ch = "u" -> "U" [] ch = "v" -> "V" [] ch = "w" -> "W" [] ch = "x" -> "X"
      [] ch = "y" -> "Y" [] ch = "z" -> "Z"
      [] OTHER -> ch

\* str.upper() character by character, for the beginnings of the VINs, which are
\* too many for the table of Upper
RECURSIVE UpperEach(_)
UpperEach(s) ==
    IF s = "" THEN ""
    ELSE UpperChar(SubSeq(s, 1, 1)) \o UpperEach(SubSeq(s, 2, Len(s)))

\* str.strip() on the strings the model passes in
Strip(s) ==
    CASE s = " ford "  -> "ford"
      [] s = " FORD "  -> "FORD"
      [] OTHER         -> s

----------------------------------------------------------------------------
(* The definition store *)

StoreCodes == {"P0171", "P1690"}
StoreManufacturers == {GENERIC, "FORD", "NISSAN", "INFINITI", "GM", "CHEVY"}
Descriptions == {"d1", "d2"}
Locales == {"en", "es"}

\* One row, as the builders insert it: is_generic is set exactly for the
\* files p_codes/b_codes/c_codes/u_codes, whose manufacturer is 'GENERIC'
Row(code, manufacturer, description, loc) ==
    [code |-> code, manufacturer |-> manufacturer, description |-> description,
     is_generic |-> (manufacturer = GENERIC), locale |-> loc]

\* PRIMARY KEY (code, manufacturer, locale)
SameKey(r, q) ==
    r.code = q.code /\ r.manufacturer = q.manufacturer /\ r.locale = q.locale

\* The tables of at most n rows over the given columns
RECURSIVE Tables(_, _, _, _)
Tables(n, codes, manufacturers, locales) ==
    IF n = 0 THEN {{}}
    ELSE LET smaller == Tables(n - 1, codes, manufacturers, locales)
             rows == {Row(c, m, d, l) : c \in codes, m \in manufacturers,
                                        d \in Descriptions, l \in locales}
         IN smaller \cup
            UNION {{S \cup {r} : r \in {x \in rows : \A q \in S : ~SameKey(x, q)}} :
                   S \in smaller}

\* The choices of the rows a scan meets first: one row of every (code, locale)
ScanChoices(rows) ==
    {F \in SUBSET rows :
        \A r \in rows :
            Cardinality({q \in F : q.code = r.code /\ q.locale = r.locale}) = 1}

\* What cursor.fetchone() returns when the result set is empty (None)
NoRow ==
    [code |-> None, manufacturer |-> None, description |-> None,
     is_generic |-> FALSE, locale |-> None]

\* cursor.fetchone() on a result set without a total ORDER BY
FetchOne(rows) ==
    IF rows = {} THEN NoRow
    ELSE IF rows \cap scan_first # {} THEN CHOOSE r \in rows \cap scan_first : TRUE
    ELSE CHOOSE r \in rows : TRUE

----------------------------------------------------------------------------
(* PerfectDTCDatabase *)

\* get_for_manufacturer with the generic row tried before the manufacturer's own
get_for_manufacturer_generic_first(code, manufacturer) ==
    IF manufacturer = None THEN Raised
    ELSE
    LET c == Upper(code)
        m == Upper(manufacturer)
        exact   == FetchOne({r \in store : r.code = c /\ r.manufacturer = m})
        generic == FetchOne({r \in store : r.code = c /\ r.is_generic})
    IN  IF generic # NoRow THEN generic.description
        ELSE IF exact # NoRow THEN exact.description
        ELSE None

\* get_for_manufacturer without the INFINITI retry for NISSAN
get_for_manufacturer_no_nissan_alias(code, manufacturer) ==
    IF manufacturer = None THEN Raised
    ELSE
    LET c == Upper(code)
        m == Upper(manufacturer)
        exact   == FetchOne({r \in store : r.code = c /\ r.manufacturer = m})
        gm      == FetchOne({r \in store : r.code = c /\ r.manufacturer = "GM"})
        generic == FetchOne({r \in store : r.code = c /\ r.is_generic})
    IN  IF exact # NoRow THEN exact.description
        ELSE IF m \in GM_BRANDS /\ gm # NoRow THEN gm.description
        ELSE IF generic # NoRow THEN generic.description
        ELSE None

\* get_for_manufacturer with the NISSAN/INFINITI alias applied in both directions
get_for_manufacturer_alias_both_ways(code, manufacturer) ==
    IF manufacturer = None THEN Raised
    ELSE
    LET c == Upper(code)
        m == Upper(manufacturer)
        exact    == FetchOne({r \in store : r.code = c /\ r.manufacturer = m})
        infiniti == FetchOne({r \in store : r.code = c /\ r.manufacturer = "INFINITI"})
        nissan   == FetchOne({r \in store : r.code = c /\ r.manufacturer = "NISSAN"})
        gm       == FetchOne({r \in store : r.code = c /\ r.manufacturer = "GM"})
        generic  == FetchOne({r \in store : r.code = c /\ r.is_generic})
    IN  IF exact # NoRow THEN exact.description
        ELSE IF m = "NISSAN" /\ infiniti # NoRow THEN infiniti.description
        ELSE IF m = "INFINITI" /\ nissan # NoRow THEN nissan.description
        ELSE IF m \in GM_BRANDS /\ gm # NoRow THEN gm.description
        ELSE IF generic # NoRow THEN generic.description
        ELSE None

\* PerfectDTCDatabase.get_for_manufacturer: the description, None, or Raised
\* (manufacturer.upper() on None raises AttributeError)
get_for_manufacturer(code, manufacturer) ==
    IF manufacturer = None THEN Raised
    ELSE
    LET c == Upper(code)
        m == Upper(manufacturer)
        exact    == FetchOne({r \in store : r.code = c /\ r.manufacturer = m})
        infiniti == FetchOne({r \in store : r.code = c /\ r.manufacturer = "INFINITI"})
        gm       == FetchOne({r \in store : r.code = c /\ r.manufacturer = "GM"})
        generic  == FetchOne({r \in store : r.code = c /\ r.is_generic})
    IN  IF exact # NoRow THEN exact.description
        ELSE IF m = "NISSAN" /\ infiniti # NoRow THEN infiniti.description
        ELSE IF m \in GM_BRANDS /\ gm # NoRow THEN gm.description
        ELSE IF generic # NoRow THEN generic.description
        ELSE None

----------------------------------------------------------------------------
(* PerfectDTCDatabase.get_manufacturer_from_vin *)

\* wmi_map: the manufacturer of every listed 3-character prefix
wmi_map ==
    "1FA" :> "FORD" @@ "1FB" :> "FORD" @@ "1FC" :> "FORD" @@ "1FD" :> "FORD" @@
    "1FM" :> "FORD" @@ "1FT" :> "FORD" @@ "1FU" :> "FORD" @@ "1FV" :> "FORD" @@
    "1G1" :> "CHEVY" @@ "1G2" :> "PONTIAC" @@ "1G3" :> "OLDSMOBILE" @@ "1G4" :> "BUICK" @@
    "1G6" :> "CADILLAC" @@ "1G8" :> "SATURN" @@ "1GC" :> "CHEVY" @@ "1GM" :> "PONTIAC" @@
    "1GT" :> "GMC" @@ "1GE" :> "CADILLAC" @@ "1GY" :> "CADILLAC" @@ "1G9" :> "GEO" @@
    "1C3" :> "CHRYSLER" @@ "1C4" :> "CHRYSLER" @@ "1C6" :> "CHRYSLER" @@ "1D3" :> "DODGE" @@
    "1D4" :> "DODGE" @@ "1D7" :> "DODGE" @@ "1D8" :> "DODGE" @@ "1J4" :> "JEEP" @@
    "1J8" :> "JEEP" @@ "1P3" :> "PLYMOUTH" @@ "1P4" :> "PLYMOUTH" @@ "1P7" :> "PLYMOUTH" @@
    "1HG" :> "HONDA" @@ "1LN" :> "LINCOLN" @@ "1ME" :> "MERCURY" @@ "1N4" :> "NISSAN" @@
    "1N6" :> "NISSAN" @@ "1VW" :> "VOLKSWAGEN" @@ "1YV" :> "MAZDA" @@ "1ZV" :> "FORD" @@
    "2FA" :> "FORD" @@ "2FB" :> "FORD" @@ "2FC" :> "FORD" @@ "2FM" :> "FORD" @@
    "2FT" :> "FORD" @@ "2FU" :> "FORD" @@ "2FV" :> "FORD" @@ "2FZ" :> "FORD" @@
    "2G1" :> "CHEVY" @@ "2G2" :> "PONTIAC" @@ "2G3" :> "OLDSMOBILE" @@ "2G4" :> "BUICK" @@
    "2G5" :> "GMC" @@ "2G6" :> "CADILLAC" @@ "2G9" :> "GEO" @@ "2HG" :> "HONDA" @@
    "2HK" :> "HONDA" @@ "2HM" :> "HONDA" @@ "2LM" :> "LINCOLN" @@ "2ME" :> "MERCURY" @@
    "2C3" :> "CHRYSLER" @@ "2C4" :> "CHRYSLER" @@ "2D3" :> "DODGE" @@ "2P3" :> "PLYMOUTH" @@
    "2P4" :> "PLYMOUTH" @@ "3FA" :> "FORD" @@ "3FE" :> "FORD" @@ "3G1" :> "CHEVY" @@
    "3G2" :> "PONTIAC" @@ "3G4" :> "BUICK" @@ "3G5" :> "BUICK" @@ "3G6" :> "CADILLAC" @@
    "3G7" :> "GMC" @@ "3GC" :> "CHEVY" @@ "3VW" :> "VOLKSWAGEN" @@ "3C4" :> "CHRYSLER" @@
    "3D3" :> "DODGE" @@ "3D4" :> "DODGE" @@ "3P3" :> "PLYMOUTH" @@ "4F2" :> "MAZDA" @@
    "4F3" :> "MAZDA" @@ "4F4" :> "MAZDA" @@ "4J8" :> "JEEP" @@ "4JG" :> "MERCEDES" @@
    "4US" :> "BMW" @@ "4T1" :> "TOYOTA" @@ "4T3" :> "TOYOTA" @@ "5FN" :> "HONDA" @@
    "5J6" :> "HONDA" @@ "5J8" :> "ACURA" @@ "5NP" :> "KIA" @@ "5TB" :> "TOYOTA" @@
    "5TD" :> "TOYOTA" @@ "5TE" :> "TOYOTA" @@ "5TF" :> "TOYOTA" @@ "5YJ" :> "TESLA" @@
    "4A3" :> "MITSUBISHI" @@ "4A4" :> "MITSUBISHI" @@ "4A5" :> "MITSUBISHI" @@ "4B3" :> "MITSUBISHI" @@
    "JA3" :> "MITSUBISHI" @@ "JA4" :> "MITSUBISHI" @@ "JA7" :> "MITSUBISHI" @@ "JF1" :> "SUBARU" @@
    "JF2" :> "SUBARU" @@ "JF3" :> "SUBARU" @@ "JH4" :> "ACURA" @@ "JHG" :> "HONDA" @@
    "JHL" :> "HONDA" @@ "JHM" :> "HONDA" @@ "JM1" :> "MAZDA" @@ "JM3" :> "MAZDA" @@
    "JM7" :> "MAZDA" @@ "JN1" :> "NISSAN" @@ "JN3" :> "NISSAN" @@ "JN6" :> "NISSAN" @@
    "JN8" :> "NISSAN" @@ "JS1" :> "SUZUKI" @@ "JS2" :> "SUZUKI" @@ "JS3" :> "SUZUKI" @@
    "JT2" :> "TOYOTA" @@ "JT3" :> "TOYOTA" @@ "JT4" :> "TOYOTA" @@ "JT5" :> "TOYOTA" @@
    "JT6" :> "TOYOTA" @@ "JT8" :> "LEXUS" @@ "JTD" :> "TOYOTA" @@ "JTE" :> "TOYOTA" @@
    "JTH" :> "LEXUS" @@ "JTJ" :> "LEXUS" @@ "JTK" :> "TOYOTA" @@ "JTL" :> "TOYOTA" @@
    "JTM" :> "TOYOTA" @@ "JTN" :> "TOYOTA" @@ "KM8" :> "KIA" @@ "KN8" :> "KIA" @@
    "KNA" :> "KIA" @@ "KND" :> "KIA" @@ "KNH" :> "KIA" @@ "KNJ" :> "KIA" @@
    "KMH" :> "HYUNDAI" @@ "KMF" :> "HYUNDAI" @@ "KM1" :> "HYUNDAI" @@ "VF1" :> "RENAULT" @@
    "VF2" :> "RENAULT" @@ "VF3" :> "PEUGEOT" @@ "VF4" :> "PEUGEOT" @@ "VF6" :> "RENAULT" @@
    "VF7" :> "CITROEN" @@ "VF8" :> "MATRA" @@ "VF9" :> "BUGATTI" @@ "W0L" :> "OPEL" @@
    "W0V" :> "OPEL" @@ "WA1" :> "AUDI" @@ "WAU" :> "AUDI" @@ "WUA" :> "AUDI" @@
    "WBA" :> "BMW" @@ "WBM" :> "BMW" @@ "WBS" :> "BMW" @@ "WBX" :> "BMW" @@
    "WBY" :> "BMW" @@ "WB1" :> "BMW" @@ "WB2" :> "BMW" @@ "WB3" :> "BMW" @@
    "WD0" :> "MERCEDES" @@ "WD1" :> "MERCEDES" @@ "WD2" :> "MERCEDES" @@ "WD3" :> "MERCEDES" @@
    "WD4" :> "MERCEDES" @@ "WD5" :> "MERCEDES" @@ "WD8" :> "MERCEDES" @@ "WDA" :> "MERCEDES" @@
    "WDB" :> "MERCEDES" @@ "WDC" :> "MERCEDES" @@ "WDD" :> "MERCEDES" @@ "WDE" :> "MERCEDES" @@
    "WDF" :> "MERCEDES" @@ "WMW" :> "MINI" @@ "WP0" :> "PORSCHE" @@ "WP1" :> "PORSCHE" @@
    "WVG" :> "VOLKSWAGEN" @@ "WVW" :> "VOLKSWAGEN" @@ "WV1" :> "VOLKSWAGEN" @@ "WV2" :> "VOLKSWAGEN" @@
    "WV3" :> "VOLKSWAGEN" @@ "SAJ" :> "JAGUAR" @@ "SAD" :> "JAGUAR" @@ "SAF" :> "JAGUAR" @@
    "SAX" :> "JAGUAR" @@ "SCC" :> "LOTUS" @@ "SCF" :> "ASTON_MARTIN" @@ "SAL" :> "LAND_ROVER" @@
    "SAR" :> "ROVER" @@ "SHH" :> "LAND_ROVER" @@ "SJN" :> "NISSAN" @@ "YV1" :> "VOLVO" @@
    "YV2" :> "VOLVO" @@ "YV3" :> "VOLVO" @@ "YV4" :> "VOLVO" @@ "YV5" :> "VOLVO" @@
    "YS3" :> "SAAB" @@ "ZA9" :> "LAMBORGHINI" @@ "ZAM" :> "MASERATI" @@ "ZAR" :> "ALFA_ROMEO" @@
    "ZCF" :> "IVECO" @@ "ZFA" :> "FIAT" @@ "ZFF" :> "FERRARI" @@ "ZHW" :> "LAMBORGHINI" @@
    "ZLA" :> "LANCIA" @@ "MA3" :> "MITSUBISHI" @@ "MB3" :> "MITSUBISHI" @@ "ML3" :> "MITSUBISHI" @@
    "MMB" :> "MITSUBISHI" @@ "MMC" :> "MITSUBISHI" @@ "MMD" :> "MITSUBISHI" @@ "MMT" :> "MITSUBISHI" @@
    "MZ2" :> "MITSUBISHI" @@ "MZ3" :> "MITSUBISHI" @@ "LVS" :> "FORD" @@ "LVY" :> "VOLVO" @@
    "LVG" :> "TOYOTA" @@ "L56" :> "HYUNDAI" @@ "L5Y" :> "MAZDA" @@ "9BW" :> "VOLKSWAGEN" @@
    "9BF" :> "FORD" @@ "9BG" :> "CHEVY" @@ "9BD" :> "FIAT" @@ "9BM" :> "MERCEDES" @@
    "9BN" :> "JAGUAR" @@ "93H" :> "HONDA" @@ "93W" :> "PEUGEOT" @@ "93X" :> "CITROEN" @@
    "93Y" :> "RENAULT" @@ "94D" :> "NISSAN" @@ "9FB" :> "RENAULT"

\* The elif chain on wmi2 without its branches for 1G, 2G and 3G
fallback_wmi2_without_GM(wmi2) ==
    IF wmi2 = "1C" THEN "CHRYSLER"
    ELSE IF wmi2 = "1D" THEN "DODGE"
    ELSE IF wmi2 = "1P" THEN "PLYMOUTH"
    ELSE IF wmi2 = "2C" THEN "CHRYSLER"
    ELSE IF wmi2 = "2D" THEN "DODGE"
    ELSE IF wmi2 = "2P" THEN "PLYMOUTH"
    ELSE IF wmi2 = "3C" THEN "CHRYSLER"
    ELSE IF wmi2 = "3D" THEN "DODGE"
    ELSE IF wmi2 = "3P" THEN "PLYMOUTH"
    ELSE None

\* The elif chain on wmi2 (2-character fallbacks, then the GM fallback); None when
\* no branch is taken
fallback_wmi2(wmi2) ==
    IF wmi2 = "1C" THEN "CHRYSLER"
    ELSE IF wmi2 = "1D" THEN "DODGE"
    ELSE IF wmi2 = "1P" THEN "PLYMOUTH"
    ELSE IF wmi2 = "2C" THEN "CHRYSLER"
    ELSE IF wmi2 = "2D" THEN "DODGE"
    ELSE IF wmi2 = "2P" THEN "PLYMOUTH"
    ELSE IF wmi2 = "3C" THEN "CHRYSLER"
    ELSE IF wmi2 = "3D" THEN "DODGE"
    ELSE IF wmi2 = "3P" THEN "PLYMOUTH"
    ELSE IF wmi2 = "1G" THEN "GM"
    ELSE IF wmi2 = "2G" THEN "GM"
    ELSE IF wmi2 = "3G" THEN "GM"
    ELSE None

\* The regional branches with a manufacturer guessed for every region letter
fallback_wmi1_guessing(wmi1) ==
    IF wmi1 = "J" THEN "TOYOTA"
    ELSE IF wmi1 = "K" THEN "HYUNDAI"
    ELSE IF wmi1 = "S" THEN "JAGUAR"
    ELSE IF wmi1 = "W" THEN "VOLKSWAGEN"
    ELSE IF wmi1 = "V" THEN "RENAULT"
    ELSE IF wmi1 = "Z" THEN "FIAT"
    ELSE None

\* The elif chain continued on wmi1 (regional fallbacks), and the final return None
fallback_wmi1(wmi1) ==
    IF wmi1 = "J" THEN None
    ELSE IF wmi1 = "K" THEN None
    ELSE IF wmi1 = "S" THEN None
    ELSE IF wmi1 = "W" THEN None
    ELSE IF wmi1 = "V" THEN None
    ELSE IF wmi1 = "Z" THEN None
    ELSE None

\* The decoder with the 2-character fallbacks tried before the 3-character table
get_manufacturer_from_vin_wmi2_first(vin) ==
    IF vin = None \/ vin = "" \/ Len(vin) < 3 THEN None
    ELSE LET wmi  == UpperEach(SubSeq(vin, 1, 3))
             wmi2 == UpperEach(SubSeq(vin, 1, 2))
             wmi1 == UpperEach(SubSeq(vin, 1, 1))
         IN  IF fallback_wmi2(wmi2) # None THEN fallback_wmi2(wmi2)
             ELSE IF wmi \in DOMAIN wmi_map THEN wmi_map[wmi]
             ELSE fallback_wmi1(wmi1)

\* PerfectDTCDatabase.get_manufacturer_from_vin: the manufacturer, or None
get_manufacturer_from_vin(vin) ==
    IF vin = None \/ vin = "" \/ Len(vin) < 3 THEN None
    ELSE LET wmi  == UpperEach(SubSeq(vin, 1, 3))
             wmi2 == UpperEach(SubSeq(vin, 1, 2))
             wmi1 == UpperEach(SubSeq(vin, 1, 1))
         IN  IF wmi \in DOMAIN wmi_map THEN wmi_map[wmi]
             ELSE IF fallback_wmi2(wmi2) # None THEN fallback_wmi2(wmi2)
             ELSE fallback_wmi1(wmi1)

----------------------------------------------------------------------------
(* PerfectDTCDatabase.get_all_definitions and get_smart *)

\* The characters of the manufacturer keys, in the order of their codes
CharsAscending == "0123456789ABCDEFGHIJKLMNOPQRSTUVWXYZ_"
CharCode(ch) == CHOOSE i \in 1..Len(CharsAscending) : SubSeq(CharsAscending, i, i) = ch

\* a < b as SQLite's BINARY collation compares two strings
RECURSIVE StrLess(_, _)
StrLess(a, b) ==
    IF b = "" THEN FALSE
    ELSE IF a = "" THEN TRUE
    ELSE LET x == CharCode(SubSeq(a, 1, 1))
             y == CharCode(SubSeq(b, 1, 1))
         IN  IF x # y THEN x < y
             ELSE StrLess(SubSeq(a, 2, Len(a)), SubSeq(b, 2, Len(b)))

\* ORDER BY is_generic DESC, manufacturer: r is sorted before q
RowBefore(r, q) ==
    \/ r.is_generic /\ ~q.is_generic
    \/ r.is_generic = q.is_generic /\ StrLess(r.manufacturer, q.manufacturer)

\* cursor.fetchall() of the ordered SELECT. PRIMARY KEY (code, manufacturer) leaves
\* no two rows of one code that the ORDER BY does not tell apart.
RECURSIVE FetchAllOrdered(_)
FetchAllOrdered(rows) ==
    IF rows = {} THEN <<>>
    ELSE LET first == CHOOSE r \in rows : \A q \in rows : ~RowBefore(q, r)
         IN  <<first>> \o FetchAllOrdered(rows \ {first})

\* @dataclass ManufacturerDTC built from a fetched row
ManufacturerDTC(code, row) ==
    [code |-> code, manufacturer |-> row.manufacturer,
     description |-> row.description, is_generic |-> row.is_generic]

\* result['primary'] while it is None
NoPrimary ==
    [code |-> None, manufacturer |-> None, description |-> None, is_generic |-> FALSE]

\* get_all_definitions with the generic rows left out
get_all_definitions_without_generic(code) ==
    LET c == Upper(code)
        rows == FetchAllOrdered({r \in store : r.code = c /\ ~r.is_generic})
    IN  [i \in 1..Len(rows) |-> ManufacturerDTC(c, rows[i])]

\* PerfectDTCDatabase.get_all_definitions
get_all_definitions(code) ==
    LET c == Upper(code)
        rows == FetchAllOrdered({r \in store : r.code = c})
    IN  [i \in 1..Len(rows) |-> ManufacturerDTC(c, rows[i])]

\* Python truth value of an Optional[str] argument
Truthy(x) == x # None /\ x # ""

\* The first of the definitions at the places found, NoPrimary when none is found
\* (for dtc in all_defs: if ...: result['primary'] = dtc; break)
FirstDTC(defs, found) ==
    IF found = {} THEN NoPrimary
    ELSE defs[CHOOSE i \in found : \A j \in found : i <= j]

\* get_smart, "First priority: Exact manufacturer match"
primary_exact_match(all_defs, manufacturer) ==
    IF Truthy(manufacturer)
    THEN FirstDTC(all_defs, {i \in 1..Len(all_defs) :
                                Upper(all_defs[i].manufacturer) = Upper(manufacturer)})
    ELSE NoPrimary

\* The second priority left out
primary_generic_left_out(all_defs) == NoPrimary

\* get_smart, "Second priority: Generic definition"
primary_generic(all_defs) ==
    FirstDTC(all_defs, {i \in 1..Len(all_defs) : all_defs[i].is_generic})

\* desc_counts: the descriptions in the order in which the loop first meets them
RECURSIVE desc_keys(_)
desc_keys(defs) ==
    IF defs = <<>> THEN <<>>
    ELSE LET d == Head(defs).description
         IN  <<d>> \o desc_keys(SelectSeq(Tail(defs), LAMBDA dtc : dtc.description # d))

\* desc_counts[desc]: the definitions with that description, in fetched order
desc_counts(all_defs, desc) == SelectSeq(all_defs, LAMBDA dtc : dtc.description = desc)

\* max(desc_counts.items(), key=lambda x: len(x[1])): the first key, in the
\* order of the dict, whose list is longest
RECURSIVE max_by_len(_, _)
max_by_len(all_defs, keys) ==
    IF Len(keys) = 1 THEN keys[1]
    ELSE LET best == max_by_len(all_defs, SubSeq(keys, 1, Len(keys) - 1))
             d == keys[Len(keys)]
         IN  IF Len(desc_counts(all_defs, d)) > Len(desc_counts(all_defs, best))
             THEN d ELSE best

\* The third priority replaced by the first fetched definition
primary_first_fetched(all_defs) == all_defs[1]

\* get_smart, "Third priority: Most common definition" (all_defs is not empty)
primary_most_common(all_defs) ==
    LET most_common == max_by_len(all_defs, desc_keys(all_defs))
    IN  desc_counts(all_defs, most_common)[1]

\* The priorities with the generic definition tried before the manufacturer match
select_primary_generic_first(all_defs, manufacturer) ==
    IF primary_generic(all_defs) # NoPrimary
    THEN primary_generic(all_defs)
    ELSE IF primary_exact_match(all_defs, manufacturer) # NoPrimary
    THEN primary_exact_match(all_defs, manufacturer)
    ELSE primary_most_common(all_defs)

\* get_smart: result['primary'] for a non-empty all_defs
select_primary(all_defs, manufacturer) ==
    IF primary_exact_match(all_defs, manufacturer) # NoPrimary
    THEN primary_exact_match(all_defs, manufacturer)
    ELSE IF primary_generic(all_defs) # NoPrimary
    THEN primary_generic(all_defs)
    ELSE primary_most_common(all_defs)

\* The alternatives with the primary left in
alternatives_with_primary(all_defs, primary) == all_defs

\* get_smart, "Add alternatives": if dtc != result['primary'] (dataclass equality)
alternatives_of(all_defs, primary) == SelectSeq(all_defs, LAMBDA dtc : dtc # primary)

\* What get_smart returns
SmartResult(code, primary, alternatives, total_definitions, is_manufacturer_specific) ==
    [code |-> code, primary |-> primary, alternatives |-> alternatives,
     total_definitions |-> total_definitions,
     is_manufacturer_specific |-> is_manufacturer_specific]

\* The value of last.smart after a call that is not get_smart
NoSmart == SmartResult(None, NoPrimary, <<>>, 0, FALSE)

\* The flag set for the second character 1 only
smart_is_manufacturer_specific_only_1(c) ==
    /\ Len(c) = 5
    /\ SubSeq(c, 1, 1) = "P"
    /\ SubSeq(c, 2, 2) = "1"

\* get_smart, "Determine if manufacturer-specific": result['is_manufacturer_specific']
\* for the upper-cased code c
smart_is_manufacturer_specific(c) ==
    /\ Len(c) = 5
    /\ SubSeq(c, 1, 1) = "P"
    /\ SubSeq(c, 2, 2) \in {"1", "3"}

\* The manufacturer as given, the VIN never decoded
smart_manufacturer_ignoring_vin(manufacturer, vin) == manufacturer

\* The manufacturer decoded from the VIN whenever it decodes, also when one is given
smart_manufacturer_vin_first(manufacturer, vin) ==
    IF Truthy(vin) /\ get_manufacturer_from_vin(vin) # None
    THEN get_manufacturer_from_vin(vin)
    ELSE manufacturer

\* get_smart, "Extract manufacturer from VIN if provided": the manufacturer the
\* primary is searched for
smart_manufacturer(manufacturer, vin) ==
    IF Truthy(vin) /\ ~Truthy(manufacturer)
    THEN get_manufacturer_from_vin(vin)
    ELSE manufacturer

\* PerfectDTCDatabase.get_smart
get_smart(code, manufacturer, vin) ==
    LET c == Upper(code)
        is_manufacturer_specific == smart_is_manufacturer_specific(c)
        m == smart_manufacturer(manufacturer, vin)
        all_defs == get_all_definitions(c)
        primary == select_primary(all_defs, m)
    IN  IF all_defs = <<>>
        THEN SmartResult(c, NoPrimary, <<>>, 0, is_manufacturer_specific)
        ELSE SmartResult(c, primary, alternatives_of(all_defs, primary),
                         Len(all_defs), is_manufacturer_specific)

----------------------------------------------------------------------------
(* PerfectDTCDatabase.analyze_code *)

\* cursor.fetchall() of SELECT ... WHERE code = ? ORDER BY manufacturer
RECURSIVE FetchAllByManufacturer(_)
FetchAllByManufacturer(rows) ==
    IF rows = {} THEN <<>>
    ELSE LET first == CHOOSE r \in rows :
                          \A q \in rows : ~StrLess(q.manufacturer, r.manufacturer)
         IN  <<first>> \o FetchAllByManufacturer(rows \ {first})

\* One entry of analysis['variations']
Variation(description, manufacturers) ==
    [description |-> description, manufacturers |-> manufacturers,
     count |-> Len(manufacturers)]

\* The grouping with the generic rows left out
variations_without_generic(rows) ==
    LET kept == SelectSeq(rows, LAMBDA r : ~r.is_generic)
        keys == desc_keys(kept)
    IN  [k \in 1..Len(keys) |->
            LET of_desc == SelectSeq(kept, LAMBDA r : r.description = keys[k])
            IN  Variation(keys[k], [i \in 1..Len(of_desc) |-> of_desc[i].manufacturer])]

\* variations = {} filled by the loop over the fetched rows, then turned into the
\* entries of analysis['variations'], in the order of the dict (first seen first)
variations_of(rows) ==
    LET keys == desc_keys(rows)
    IN  [k \in 1..Len(keys) |->
            LET of_desc == SelectSeq(rows, LAMBDA r : r.description = keys[k])
            IN  Variation(keys[k], [i \in 1..Len(of_desc) |-> of_desc[i].manufacturer])]

\* The entries left in the order of the dict
sort_by_count_left_out(variations) == variations

\* analysis['variations'].sort(key=lambda x: x['count'], reverse=True): a stable
\* sort, entries of equal count keep their order
RECURSIVE sort_by_count(_)
sort_by_count(variations) ==
    IF Len(variations) <= 1 THEN variations
    ELSE LET n == Len(variations)
             entry == variations[n]
             sorted == sort_by_count(SubSeq(variations, 1, n - 1))
             before == SelectSeq(sorted, LAMBDA v : v.count >= entry.count)
             after == SelectSeq(sorted, LAMBDA v : v.count < entry.count)
         IN  before \o <<entry>> \o after

\* The sum of len(manufacturers) over the entries
RECURSIVE total_manufacturers(_)
total_manufacturers(variations) ==
    IF Len(variations) = 0 THEN 0
    ELSE Len(Head(variations).manufacturers) + total_manufacturers(Tail(variations))

\* What analyze_code returns
Analysis(code, total, unique_descriptions, variations) ==
    [code |-> code, total_manufacturers |-> total,
     unique_descriptions |-> unique_descriptions, variations |-> variations]

\* The value of last.analysis after a call that is not analyze_code
NoAnalysis == Analysis(None, 0, 0, <<>>)

\* PerfectDTCDatabase.analyze_code
analyze_code(code) ==
    LET c == Upper(code)
        rows == FetchAllByManufacturer({r \in store : r.code = c})
        variations == variations_of(rows)
    IN  Analysis(c, total_manufacturers(variations), Len(variations),
                 sort_by_count(variations))

----------------------------------------------------------------------------
(* DTCDatabase *)

\* cache_size: int = 100
DefaultCacheSize == 100

\* What get_dtc returns when nothing is found (None)
NoneDTC ==
    [code |-> None, description |-> None, manufacturer |-> None,
     is_generic |-> FALSE, locale |-> None]

\* DTCDatabase._normalize_code
normalize_code(code) == Strip(Upper(code))

\* DTCDatabase._normalize_manufacturer
normalize_manufacturer(manufacturer) ==
    IF manufacturer = None THEN None
    ELSE LET cleaned == Upper(Strip(manufacturer))
         IN IF cleaned = "" THEN None ELSE cleaned

\* DTCDatabase._row_to_dtc (the columns type and source_file are not modelled)
row_to_dtc(row) ==
    [code |-> row.code,
     description |-> row.description,
     manufacturer |-> IF row.manufacturer = GENERIC THEN None ELSE row.manufacturer,
     is_generic |-> (row.is_generic \/ row.manufacturer = GENERIC),
     locale |-> row.locale]

\* ORDER BY is_generic DESC LIMIT 1: the rows among which the first one is taken
GenericFirst(rows) ==
    IF \E r \in rows : r.is_generic THEN {r \in rows : r.is_generic} ELSE rows

\* get_dtc without the fallback to the GENERIC row when a manufacturer is given
get_dtc_no_generic_fallback(code, manufacturer) ==
    LET c == normalize_code(code)
        m == normalize_manufacturer(manufacturer)
        exact == FetchOne({r \in store : r.code = c /\ r.manufacturer = m /\ r.locale = locale})
        any   == FetchOne(GenericFirst({r \in store : r.code = c /\ r.locale = locale}))
    IN  IF m # None
        THEN IF exact # NoRow THEN row_to_dtc(exact) ELSE NoneDTC
        ELSE IF any # NoRow THEN row_to_dtc(any) ELSE NoneDTC

\* DTCDatabase.get_dtc: the DTC found, or NoneDTC
get_dtc(code, manufacturer) ==
    LET c == normalize_code(code)
        m == normalize_manufacturer(manufacturer)
        exact   == FetchOne({r \in store : r.code = c /\ r.manufacturer = m /\ r.locale = locale})
        generic == FetchOne({r \in store : r.code = c /\ r.manufacturer = GENERIC /\ r.locale = locale})
        any     == FetchOne(GenericFirst({r \in store : r.code = c /\ r.locale = locale}))
    IN  IF m # None
        THEN IF exact # NoRow THEN row_to_dtc(exact)
             ELSE IF generic # NoRow THEN row_to_dtc(generic) ELSE NoneDTC
        ELSE IF any # NoRow THEN row_to_dtc(any) ELSE NoneDTC

\* The description of what get_dtc returned, None when it returned None
DescriptionOf(dtc) == IF dtc = NoneDTC THEN None ELSE dtc.description

\* The cache key without the manufacturer: every lookup of a code shares one entry
cache_key_without_manufacturer(normalized_code, normalized_manufacturer) ==
    <<normalized_code, GENERIC, locale>>

\* cache_key = f"{normalized_code}:{normalized_manufacturer or 'GENERIC'}:{self.locale}"
cache_key(normalized_code, normalized_manufacturer) ==
    <<normalized_code,
      IF normalized_manufacturer = None THEN GENERIC ELSE normalized_manufacturer,
      locale>>

\* key in self.cache
CacheHas(c, key) == \E i \in 1..Len(c) : c[i].key = key

\* self.cache.pop(key): the value popped, and the cache left
CacheValue(c, key) == (CHOOSE e \in {c[i] : i \in 1..Len(c)} : e.key = key).value
CacheWithout(c, key) == SelectSeq(c, LAMBDA e : e.key # key)

\* DTCDatabase._cache_get: the value returned (None on a miss)
cache_get_value(c, key) == IF CacheHas(c, key) THEN CacheValue(c, key) ELSE None

\* _cache_get that leaves a hit entry where it is
cache_get_cache_no_move(c, key) == c

\* DTCDatabase._cache_get: the cache it leaves (a hit moves the entry to the end)
cache_get_cache(c, key) ==
    IF CacheHas(c, key)
    THEN Append(CacheWithout(c, key), [key |-> key, value |-> CacheValue(c, key)])
    ELSE c

\* _cache_set that never evicts
cache_set_no_eviction(c, key, value) ==
    Append(CacheWithout(c, key), [key |-> key, value |-> value])

\* DTCDatabase._cache_set: the cache it leaves
cache_set(c, key, value) ==
    LET set == Append(CacheWithout(c, key), [key |-> key, value |-> value])
    IN  IF Len(set) > cache_size THEN Tail(set) ELSE set

\* DTCDatabase.get_description: the value returned and the cache it leaves
get_description(code, manufacturer) ==
    LET normalized_code == normalize_code(code)
        normalized_manufacturer == normalize_manufacturer(manufacturer)
        key == cache_key(normalized_code, normalized_manufacturer)
        cached == cache_get_value(cache, key)
        dtc == get_dtc(normalized_code, normalized_manufacturer)
    IN  IF cached # None
        THEN [result |-> cached, cache |-> cache_get_cache(cache, key)]
        ELSE IF dtc = NoneDTC
        THEN [result |-> None, cache |-> cache_get_cache(cache, key)]
        ELSE [result |-> dtc.description,
              cache |-> cache_set(cache_get_cache(cache, key), key, dtc.description)]

\* limit: int = 200
DefaultLimit == 200

\* cursor.fetchall() of SELECT ... WHERE manufacturer = ? AND locale = ? ORDER BY
\* code ASC; the primary key leaves one row per code
RECURSIVE FetchAllByCode(_)
FetchAllByCode(rows) ==
    IF rows = {} THEN <<>>
    ELSE LET first == CHOOSE r \in rows : \A q \in rows : ~StrLess(q.code, r.code)
         IN  <<first>> \o FetchAllByCode(rows \ {first})

\* LIMIT ? left out of the query
Limit_left_out(rows, limit) == rows

\* LIMIT ?: the first limit rows, all of them when limit is negative
Limit(rows, limit) ==
    IF limit < 0 \/ Len(rows) <= limit THEN rows ELSE SubSeq(rows, 1, limit)

\* DTCDatabase.get_manufacturer_codes: the list of DTCs
get_manufacturer_codes(manufacturer, limit) ==
    LET normalized_manufacturer == normalize_manufacturer(manufacturer)
        rows == Limit(FetchAllByCode({r \in store :
                          r.manufacturer = normalized_manufacturer /\ r.locale = locale}),
                      limit)
    IN  IF normalized_manufacturer = None THEN <<>>
        ELSE [i \in 1..Len(rows) |-> row_to_dtc(rows[i])]

----------------------------------------------------------------------------
(* Calls *)

\* No call has ended yet
NoCall ==
    [op |-> "none", code |-> None, manufacturer |-> None, vin |-> None,
     result |-> None, dtc |-> NoneDTC, smart |-> NoSmart,
     analysis |-> NoAnalysis, limit |-> 0, dtcs |-> <<>>, new_locale |-> None]

\* No call is kept for comparison
NoProbe == [code |-> None, manufacturer |-> None, result |-> None, set |-> FALSE]

\* The arguments the callers pass
CodeInputs == {"P0171", "P1690", "p0171"}
ManufacturerInputs ==
    {"FORD", "ford", " FORD ", "", "BMW", GENERIC, "NISSAN", "INFINITI", "GM",
     "CHEVY", "BUICK", "CADILLAC", "GMC", "PONTIAC", "OLDSMOBILE", "SATURN", "GEO"}

\* db.get_for_manufacturer(code, manufacturer)
GetForManufacturer(code, manufacturer) ==
    /\ last' = [op |-> "get_for_manufacturer", code |-> code, manufacturer |-> manufacturer,
                vin |-> None, result |-> get_for_manufacturer(code, manufacturer),
                dtc |-> NoneDTC, smart |-> NoSmart,
                analysis |-> NoAnalysis, limit |-> 0, dtcs |-> <<>>, new_locale |-> None]
    /\ UNCHANGED <<store, scan_first, locale, cache_size, cache, probe, used>>

\* db.get_dtc(code, manufacturer)
GetDtc(code, manufacturer) ==
    /\ last' = [op |-> "get_dtc", code |-> code, manufacturer |-> manufacturer,
                vin |-> None, result |-> DescriptionOf(get_dtc(code, manufacturer)),
                dtc |-> get_dtc(code, manufacturer), smart |-> NoSmart,
                analysis |-> NoAnalysis, limit |-> 0, dtcs |-> <<>>, new_locale |-> None]
    /\ UNCHANGED <<store, scan_first, locale, cache_size, cache, probe, used>>

\* The stores, arguments and locales of the cached lookups
CacheManufacturers == {GENERIC, "FORD"}
CacheCodeInputs == {"P0171", "P1690"}
CacheManufacturerInputs == {None, GENERIC, "FORD"}
LocaleInputs == Locales \cup {""}

\* The last n elements of a sequence, all of them when it has fewer
LastOf(seq, n) == IF Len(seq) <= n THEN seq ELSE SubSeq(seq, Len(seq) - n + 1, Len(seq))

\* db.get_description(code, manufacturer); keep decides whether this call is the
\* one later calls are compared with. A call that returns a description has used
\* its cache key: it hit the entry or inserted it.
GetDescription(code, manufacturer, keep) ==
    LET call == get_description(code, manufacturer)
        key == cache_key(normalize_code(code), normalize_manufacturer(manufacturer))
    IN  /\ cache' = call.cache
        /\ last' = [op |-> "get_description", code |-> code, manufacturer |-> manufacturer,
                    vin |-> None, result |-> call.result, dtc |-> NoneDTC, smart |-> NoSmart,
                    analysis |-> NoAnalysis, limit |-> 0, dtcs |-> <<>>, new_locale |-> None]
        /\ used' = IF call.result # None
                   THEN LastOf(Append(SelectSeq(used, LAMBDA k : k # key), key),
                               cache_size + 1)
                   ELSE used
        /\ probe' = IF keep
                    THEN [code |-> code, manufacturer |-> manufacturer,
                          result |-> call.result, set |-> TRUE]
                    ELSE probe
        /\ UNCHANGED <<store, scan_first, locale, cache_size>>

\* set_locale without self.cache.clear()
SetLocale_keeping_cache(new_locale) ==
    /\ IF new_locale # "" /\ new_locale # locale
       THEN locale' = new_locale
       ELSE UNCHANGED locale
    /\ last' = [op |-> "set_locale", code |-> None, manufacturer |-> None, vin |-> None,
                result |-> None, dtc |-> NoneDTC, smart |-> NoSmart,
                analysis |-> NoAnalysis, limit |-> 0, dtcs |-> <<>>, new_locale |-> new_locale]
    /\ UNCHANGED <<store, scan_first, cache_size, cache, probe, used>>

\* db.set_locale(new_locale); a change of locale ends the comparison with the kept call
SetLocale(new_locale) ==
    /\ IF new_locale # "" /\ new_locale # locale
       THEN /\ locale' = new_locale
            /\ cache' = <<>>
            /\ probe' = NoProbe
            /\ used' = <<>>
       ELSE UNCHANGED <<locale, cache, probe, used>>
    /\ last' = [op |-> "set_locale", code |-> None, manufacturer |-> None, vin |-> None,
                result |-> None, dtc |-> NoneDTC, smart |-> NoSmart,
                analysis |-> NoAnalysis, limit |-> 0, dtcs |-> <<>>, new_locale |-> new_locale]
    /\ UNCHANGED <<store, scan_first, cache_size>>

\* No call has been made on the new PerfectDTCDatabase or DTCDatabase
Fresh == last = NoCall

\* The resolution engine on a store as the builders write it (locale 'en' only)
Init ==
    /\ store \in Tables(MaxRows, StoreCodes, StoreManufacturers, {DefaultLocale})
    /\ scan_first \in ScanChoices(store)
    /\ locale = DefaultLocale
    /\ cache_size = DefaultCacheSize
    /\ cache = <<>>
    /\ last = NoCall
    /\ probe = NoProbe
    /\ used = <<>>

\* One lookup on the new object. get_for_manufacturer and get_dtc read the store and
\* keep no state, so a later call of them does what a first call does;
\* get_description is taken here with its cache still empty, and with the cache
\* filled under SpecCache.
Next ==
    \E code \in CodeInputs, manufacturer \in ManufacturerInputs \cup {None} :
        /\ Fresh
        /\ \/ GetForManufacturer(code, manufacturer)
           \/ GetDtc(code, manufacturer)
           \/ GetDescription(code, manufacturer, FALSE)

Spec == Init /\ [][Next]_vars

----------------------------------------------------------------------------
(* DTCDatabase with its description cache *)

\* DTCDatabase(db_path, locale="en", cache_size) on a store with rows of several locales
InitCache ==
    /\ store \in Tables(MaxRows, StoreCodes, CacheManufacturers, Locales)
    /\ scan_first \in ScanChoices(store)
    /\ locale = DefaultLocale
    /\ cache_size \in 0..MaxCacheSize
    /\ cache = <<>>
    /\ last = NoCall
    /\ probe = NoProbe
    /\ used = <<>>

NextCache ==
    \/ \E code \in CacheCodeInputs, manufacturer \in CacheManufacturerInputs :
          GetDescription(code, manufacturer, FALSE)
    \/ \E new_locale \in LocaleInputs : SetLocale(new_locale)

SpecCache == InitCache /\ [][NextCache]_vars

\* The same calls, any one get_description call kept to compare later calls with
NextRepeat ==
    \/ \E code \in CacheCodeInputs, manufacturer \in CacheManufacturerInputs, keep \in BOOLEAN :
          GetDescription(code, manufacturer, keep)
    \/ \E new_locale \in LocaleInputs : SetLocale(new_locale)

SpecRepeat == InitCache /\ [][NextRepeat]_vars

----------------------------------------------------------------------------
(* PerfectDTCDatabase.get_manufacturer_from_vin on its own *)

\* The strings of exactly n characters, and of at most n characters, over chars
RECURSIVE Strings(_, _)
Strings(chars, n) ==
    IF n = 0 THEN {""}
    ELSE {s \o ch : s \in Strings(chars, n - 1), ch \in chars}
StringsUpTo(chars, n) == UNION {Strings(chars, k) : k \in 0..n}

\* The VINs passed in: every beginning over VinChars, followed by up to MaxVinTail
\* further characters, and the VINs of the documentation
VinChars ==
    {"1", "2", "3", "4", "0", "C", "D", "P", "G", "J", "K", "S", "W", "V", "Z", "X",
     "g", "p", "w", "j"}
VinTailChars == {"Z", "9"}
VinExamples ==
    {"4JGDA5HB7JB158144", "1G1ZT53826F109149", "WP0AA2990YS620404", "XX",
     "1g1zt53826f109149", "wp0aa2990ys620404", "4jgda5hb7jb158144"}
VinInputs ==
    StringsUpTo(VinChars, 2)
    \cup {wmi \o tail : wmi \in Strings(VinChars, 3), tail \in StringsUpTo(VinTailChars, MaxVinTail)}
    \cup VinExamples

\* db.get_manufacturer_from_vin(vin)
GetManufacturerFromVin(vin) ==
    /\ last' = [op |-> "get_manufacturer_from_vin", code |-> None, manufacturer |-> None,
                vin |-> vin, result |-> get_manufacturer_from_vin(vin),
                dtc |-> NoneDTC, smart |-> NoSmart,
                analysis |-> NoAnalysis, limit |-> 0, dtcs |-> <<>>, new_locale |-> None]
    /\ UNCHANGED <<store, scan_first, locale, cache_size, cache, probe, used>>

\* A new PerfectDTCDatabase; the decoder reads no table, the store is left empty
InitVin ==
    /\ store = {}
    /\ scan_first = {}
    /\ locale = DefaultLocale
    /\ cache_size = DefaultCacheSize
    /\ cache = <<>>
    /\ last = NoCall
    /\ probe = NoProbe
    /\ used = <<>>

\* One decoding; the decoder keeps no state
NextVin ==
    /\ Fresh
    /\ \E vin \in VinInputs \cup {None} : GetManufacturerFromVin(vin)

SpecVin == InitVin /\ [][NextVin]_vars

----------------------------------------------------------------------------
(* PerfectDTCDatabase.get_smart on its own *)

\* The stores and the arguments of get_smart
SmartStoreCodes == {"P0171"}
SmartManufacturers == {GENERIC, "BMW", "CHEVY", "FORD"}
SmartCodeInputs == {"P0171", "p0171", "P1690", "p1690", "P3400", "B1690", "P169"}
SmartManufacturerInputs == {None, "", "FORD", "ford", "BMW", "TOYOTA", GENERIC}
SmartVinInputs == {None, "1G1ZT53826F109149", "1fahp3f20cl123456", "4JGDA5HB7JB158144", "XX"}

\* db.get_smart(code, manufacturer, vin)
GetSmart(code, manufacturer, vin) ==
    /\ last' = [op |-> "get_smart", code |-> code, manufacturer |-> manufacturer,
                vin |-> vin, result |-> None, dtc |-> NoneDTC,
                smart |-> get_smart(code, manufacturer, vin),
                analysis |-> NoAnalysis, limit |-> 0, dtcs |-> <<>>, new_locale |-> None]
    /\ UNCHANGED <<store, scan_first, locale, cache_size, cache, probe, used>>

\* A new PerfectDTCDatabase on a store as the builders write it (locale 'en' only)
InitSmart ==
    /\ store \in Tables(MaxSmartRows, SmartStoreCodes, SmartManufacturers, {DefaultLocale})
    /\ scan_first \in ScanChoices(store)
    /\ locale = DefaultLocale
    /\ cache_size = DefaultCacheSize
    /\ cache = <<>>
    /\ last = NoCall
    /\ probe = NoProbe
    /\ used = <<>>

\* One get_smart call; it reads the store and keeps no state
NextSmart ==
    /\ Fresh
    /\ \E code \in SmartCodeInputs, manufacturer \in SmartManufacturerInputs,
          vin \in SmartVinInputs :
           GetSmart(code, manufacturer, vin)

SpecSmart == InitSmart /\ [][NextSmart]_vars

----------------------------------------------------------------------------
(* PerfectDTCDatabase.analyze_code on its own *)

AnalyzeCodeInputs == {"P0171", "p0171", "P1690"}

\* db.analyze_code(code)
AnalyzeCode(code) ==
    /\ last' = [op |-> "analyze_code", code |-> code, manufacturer |-> None,
                vin |-> None, result |-> None, dtc |-> NoneDTC, smart |-> NoSmart,
                analysis |-> analyze_code(code), limit |-> 0, dtcs |-> <<>>,
                new_locale |-> None]
    /\ UNCHANGED <<store, scan_first, locale, cache_size, cache, probe, used>>

\* One analyze_code call on a new PerfectDTCDatabase; it reads the store and keeps
\* no state
NextAnalyze ==
    /\ Fresh
    /\ \E code \in AnalyzeCodeInputs : AnalyzeCode(code)

SpecAnalyze == InitSmart /\ [][NextAnalyze]_vars

----------------------------------------------------------------------------
(* DTCDatabase.get_manufacturer_codes on its own *)

CodesManufacturerInputs == {"FORD", "ford", " FORD ", GENERIC, "BMW", "", None}
LimitInputs == {-1, 0, 1, DefaultLimit}

\* db.get_manufacturer_codes(manufacturer, limit)
GetManufacturerCodes(manufacturer, limit) ==
    /\ last' = [op |-> "get_manufacturer_codes", code |-> None, manufacturer |-> manufacturer,
                vin |-> None, result |-> None, dtc |-> NoneDTC, smart |-> NoSmart,
                analysis |-> NoAnalysis, limit |-> limit,
                dtcs |-> get_manufacturer_codes(manufacturer, limit),
                new_locale |-> None]
    /\ UNCHANGED <<store, scan_first, locale, cache_size, cache, probe, used>>

\* One get_manufacturer_codes call on a new DTCDatabase, or a change of locale
\* before it; the call reads the store and keeps no state
NextCodes ==
    \/ /\ last.op # "get_manufacturer_codes"
       /\ \E manufacturer \in CodesManufacturerInputs, limit \in LimitInputs :
             GetManufacturerCodes(manufacturer, limit)
    \/ /\ Fresh
       /\ \E new_locale \in LocaleInputs : SetLocale(new_locale)

SpecCodes == InitCache /\ [][NextCodes]_vars

----------------------------------------------------------------------------
(* What the claims speak of *)

\* The code and manufacturer the last call looked up, as each class normalizes them
LookedUpCode ==
    IF last.op = "get_for_manufacturer" THEN Upper(last.code) ELSE normalize_code(last.code)
LookedUpManufacturer ==
    IF last.op = "get_for_manufacturer"
    THEN (IF last.manufacturer = None THEN None ELSE Upper(last.manufacturer))
    ELSE normalize_manufacturer(last.manufacturer)

\* The rows the class of the last call can see for a code: PerfectDTCDatabase reads
\* every row, DTCDatabase the rows of its locale
VisibleRows(code) ==
    {r \in store : r.code = code /\ (last.op = "get_for_manufacturer" \/ r.locale = locale)}

\* The last call was a lookup of one description with a manufacturer given
LookupWithManufacturer ==
    /\ last.op \in {"get_for_manufacturer", "get_dtc", "get_description"}
    /\ LookedUpManufacturer # None

\* The brand family and the aliases as the specification states them
FamilyGM == {"CHEVY", "BUICK", "CADILLAC", "GMC", "PONTIAC", "OLDSMOBILE", "SATURN", "GEO"}
AliasesOf(manufacturer) ==
    IF manufacturer = "NISSAN" THEN {"INFINITI"}
    ELSE IF manufacturer \in FamilyGM THEN {"GM"}
    ELSE {}

\* C1: exact match wins over generic. When a row (code, M) exists, a lookup of
\* (code, M) by get_for_manufacturer, get_dtc or get_description returns that row's
\* description, whatever the generic row says.
C1_ExactMatchWins ==
    LookupWithManufacturer =>
        \A r \in VisibleRows(LookedUpCode) :
            r.manufacturer = LookedUpManufacturer => last.result = r.description

\* C1 witness: get_for_manufacturer found the manufacturer's row although a generic
\* row with another description exists
C1_Witness ==
    /\ last.op = "get_for_manufacturer"
    /\ LookedUpManufacturer # None
    /\ \E r, g \in VisibleRows(LookedUpCode) :
          /\ r.manufacturer = LookedUpManufacturer /\ ~r.is_generic
          /\ g.is_generic /\ g.description # r.description
          /\ last.result = r.description

\* C2: generic fallback. When a generic row exists for the code and neither the
\* manufacturer's own row nor an alias row does, the lookup returns the generic
\* row's description; get_dtc and get_description do so too when no manufacturer
\* is given.
C2_GenericFallback ==
    /\ LookupWithManufacturer =>
          \A g \in VisibleRows(LookedUpCode) :
              (/\ g.is_generic
               /\ \A r \in VisibleRows(LookedUpCode) :
                      r.manufacturer \notin {LookedUpManufacturer} \cup AliasesOf(LookedUpManufacturer))
              => last.result = g.description
    /\ (last.op \in {"get_dtc", "get_description"} /\ LookedUpManufacturer = None) =>
          \A g \in VisibleRows(LookedUpCode) : g.is_generic => last.result = g.description

\* C2 witness: get_dtc, asked for a manufacturer that has no row, fell back to the
\* generic row
C2_Witness ==
    /\ last.op = "get_dtc"
    /\ LookedUpManufacturer \notin {None, GENERIC}
    /\ \A r \in VisibleRows(LookedUpCode) : r.manufacturer # LookedUpManufacturer
    /\ \E g \in VisibleRows(LookedUpCode) : g.is_generic /\ last.result = g.description

\* C3: NISSAN alias. With no NISSAN row but an INFINITI row for the code,
\* get_for_manufacturer(code, NISSAN) returns the INFINITI row's description, also
\* when a generic row exists.
C3_NissanAlias ==
    (last.op = "get_for_manufacturer" /\ LookedUpManufacturer = "NISSAN") =>
        \A i \in VisibleRows(LookedUpCode) :
            (/\ i.manufacturer = "INFINITI"
             /\ \A r \in VisibleRows(LookedUpCode) : r.manufacturer # "NISSAN")
            => last.result = i.description

\* C3 witness: the INFINITI row was returned for NISSAN although a generic row with
\* another description exists
C3_Witness ==
    /\ last.op = "get_for_manufacturer"
    /\ LookedUpManufacturer = "NISSAN"
    /\ \A r \in VisibleRows(LookedUpCode) : r.manufacturer # "NISSAN"
    /\ \E i, g \in VisibleRows(LookedUpCode) :
          /\ i.manufacturer = "INFINITI"
          /\ g.is_generic /\ g.description # i.description
          /\ last.result = i.description

\* C4: GM brand family. For every brand B of the family, with no (code, B) row but
\* a (code, GM) row, get_for_manufacturer(code, B) returns the GM row's description.
C4_GMFamilyAlias ==
    (last.op = "get_for_manufacturer" /\ LookedUpManufacturer \in FamilyGM) =>
        \A g \in VisibleRows(LookedUpCode) :
            (/\ g.manufacturer = "GM"
             /\ \A r \in VisibleRows(LookedUpCode) : r.manufacturer # LookedUpManufacturer)
            => last.result = g.description

\* C4 witness: the GM row was returned for GEO although a generic row with another
\* description exists
C4_Witness ==
    /\ last.op = "get_for_manufacturer"
    /\ LookedUpManufacturer = "GEO"
    /\ \E g, x \in VisibleRows(LookedUpCode) :
          /\ g.manufacturer = "GM"
          /\ x.is_generic /\ x.description # g.description
          /\ last.result = g.description

C6_AbsentManufacturerGenericOrNone ==
    (last.op \in {"get_dtc", "get_description"} /\ LookedUpManufacturer = None) =>
        /\ \/ last.result = None
           \/ \E g \in VisibleRows(LookedUpCode) : g.is_generic /\ last.result = g.description
        /\ (\A r \in VisibleRows(LookedUpCode) : ~r.is_generic) => last.result = None

\* C7: no call ends in an exception
C7_NeverRaises == last.result # Raised

----------------------------------------------------------------------------
(* The description cache *)

\* C8: idempotence of get_description. With the store and the locale unchanged, a
\* call returns what an earlier call with the same arguments returned, whatever
\* was looked up in between.
C8_Idempotent ==
    (/\ last.op = "get_description"
     /\ probe.set
     /\ probe.code = last.code
     /\ probe.manufacturer = last.manufacturer)
    => last.result = probe.result

\* C9: cache transparency. Every get_description call returns the description of
\* what get_dtc returns for the same arguments, or None when get_dtc returns None.
C9_CacheTransparent ==
    last.op = "get_description" =>
        last.result = DescriptionOf(get_dtc(last.code, last.manufacturer))

\* C10: the cache never holds more than cache_size entries
C10_CacheBounded == Len(cache) <= cache_size

\* C10 witness: a get_description call inserted into a cache of capacity at least 1
\* and left it full
C10_Witness ==
    /\ cache_size >= 1
    /\ Len(cache) = cache_size
    /\ last.op = "get_description"
    /\ last.result # None
    /\ cache[Len(cache)].key =
          cache_key(normalize_code(last.code), normalize_manufacturer(last.manufacturer))

\* The keys of the entries the cache holds
CacheKeys == {cache[i].key : i \in 1..Len(cache)}

\* The n keys used last
MostRecentlyUsed(n) == {used[i] : i \in (Len(used) - n + 1)..Len(used)}

\* The smaller of two numbers
Min(a, b) == IF a <= b THEN a ELSE b

\* The cache key of the last get_description call
LastKey == cache_key(normalize_code(last.code), normalize_manufacturer(last.manufacturer))

\* C11: LRU eviction order. A hit and an insert both count as a use of a key. The
\* cache holds exactly the cache_size most recently used keys (all the used keys
\* while they are fewer), one entry each: an insert into a full cache evicts one
\* entry, the one used longest ago, and never a more recently used one.
C11_LRUEvictionOrder ==
    /\ CacheKeys = MostRecentlyUsed(Min(cache_size, Len(used)))
    /\ Len(cache) = Cardinality(CacheKeys)

\* C11 witness: get_description inserted or hit a key after more keys had been used
\* than the cache can hold: the key used before the cache_size last ones has been
\* evicted and the cache is full
C11_Witness ==
    /\ cache_size >= 2
    /\ Len(used) = cache_size + 1
    /\ Len(cache) = cache_size
    /\ last.op = "get_description"
    /\ last.result # None
    /\ used[Len(used)] = LastKey
    /\ used[1] \notin CacheKeys

\* The manufacturer arguments that are cached under the manufacturer part of a key:
\* the manufacturer itself, and no manufacturer for the part "GENERIC"
ManufacturersOfKey(part) == IF part = GENERIC THEN {GENERIC, None} ELSE {part}

\* The descriptions get_dtc resolves for the code and the manufacturer of a key
ResolvedFor(key) ==
    {DescriptionOf(get_dtc(key[1], m)) : m \in ManufacturersOfKey(key[2])}

\* C12: the cache key carries the manufacturer. Every entry is kept under (code,
\* manufacturer or "GENERIC", locale of the object), no two entries share a key, an
\* entry holds a description resolved for its own code and manufacturer, and a
\* get_description call returns a description resolved for the manufacturer part
\* of its own key, never the one stored for another manufacturer.
C12_CacheKeyCarriesManufacturer ==
    /\ \A i, j \in 1..Len(cache) : cache[i].key = cache[j].key => i = j
    /\ \A i \in 1..Len(cache) :
          /\ cache[i].key[3] = locale
          /\ cache[i].value \in ResolvedFor(cache[i].key)
    /\ (last.op = "get_description" /\ last.result # None) =>
          /\ LastKey[2] = (IF normalize_manufacturer(last.manufacturer) = None
                           THEN GENERIC ELSE normalize_manufacturer(last.manufacturer))
          /\ last.result \in ResolvedFor(LastKey)

\* C12 witness: the cache holds two entries of one code under two manufacturers,
\* with different descriptions, after a get_description call for one of them
C12_Witness ==
    /\ Len(cache) = 2
    /\ cache[1].key[1] = cache[2].key[1]
    /\ cache[1].key[2] # cache[2].key[2]
    /\ cache[1].value # cache[2].value
    /\ last.op = "get_description"
    /\ LastKey = cache[2].key
    /\ last.result = cache[2].value

\* The arguments that differ from s in letter case only
CaseVariantsOf(s) ==
    IF s \in {"FORD", "ford"} THEN {"FORD", "ford"}
    ELSE IF s \in {"P0171", "p0171"} THEN {"P0171", "p0171"}
    ELSE IF s \in {"P1690", "p1690"} THEN {"P1690", "p1690"}
    ELSE {s}

\* C13: case normalization. get_for_manufacturer and get_description return the
\* same result for the code and the manufacturer written in another letter case;
\* so does the lookup get_dtc that get_description makes when its cache misses.
C13_CaseNormalization ==
    \A code \in CaseVariantsOf(last.code), manufacturer \in CaseVariantsOf(last.manufacturer) :
        /\ last.op = "get_for_manufacturer" =>
              get_for_manufacturer(code, manufacturer) = last.result
        /\ last.op = "get_description" =>
              /\ get_description(code, manufacturer).result = last.result
              /\ DescriptionOf(get_dtc(code, manufacturer)) = last.result

\* C13 witness: get_description("p0171", "ford") returned the description of the
\* row (P0171, FORD), which differs from the generic row's
C13_Witness ==
    /\ last.op = "get_description"
    /\ last.code = "p0171"
    /\ last.manufacturer = "ford"
    /\ \E r, g \in store :
          /\ r.code = "P0171" /\ r.manufacturer = "FORD"
          /\ g.code = "P0171" /\ g.is_generic /\ g.description # r.description
          /\ last.result = r.description

----------------------------------------------------------------------------
(* The VIN decoder *)

\* The last call decoded a VIN of at least 3 characters
DecodedVin ==
    /\ last.op = "get_manufacturer_from_vin"
    /\ last.vin # None
    /\ Len(last.vin) >= 3

\* The first n characters of the decoded VIN, in upper case
VinPrefix(n) == UpperEach(SubSeq(last.vin, 1, n))

\* The 2-character prefixes of the second tier
TwoCharPrefixes ==
    {"1C", "2C", "3C", "1D", "2D", "3D", "1P", "2P", "3P", "1G", "2G", "3G"}

\* C14: the 3-character tier has priority. When the first three characters of the
\* VIN, in upper case, are a key of the prefix table, the decoder returns the
\* manufacturer of that key, whatever the shorter prefixes would give, in either
\* letter case and whatever follows the third character.
C14_VinThreeCharTier ==
    DecodedVin =>
        /\ VinPrefix(3) \in DOMAIN wmi_map => last.result = wmi_map[VinPrefix(3)]
        /\ last.vin \in {"1G1", "1g1", "1G1Z", "1g19", "1G1ZT53826F109149", "1g1zt53826f109149"}
              => last.result = "CHEVY"
        /\ last.vin \in {"WP0", "wp0", "wP0Z", "WP0AA2990YS620404", "wp0aa2990ys620404"}
              => last.result = "PORSCHE"
        /\ last.vin \in {"4JG", "4jG", "4JG9", "4JGDA5HB7JB158144", "4jgda5hb7jb158144"}
              => last.result = "MERCEDES"

\* C14 witness: a lower-case VIN beginning 1g1, whose 2-character prefix is in the
\* GM fallback, was decoded to CHEVY
C14_Witness ==
    /\ last.op = "get_manufacturer_from_vin"
    /\ last.vin = "1g1zt53826f109149"
    /\ last.result = "CHEVY"

\* C15: the 2-character tier. When the first three characters are not in the
\* prefix table, the decoder returns CHRYSLER for 1C/2C/3C, DODGE for 1D/2D/3D,
\* PLYMOUTH for 1P/2P/3P and GM for 1G/2G/3G.
C15_VinTwoCharTier ==
    (DecodedVin /\ VinPrefix(3) \notin DOMAIN wmi_map) =>
        /\ VinPrefix(2) \in {"1C", "2C", "3C"} => last.result = "CHRYSLER"
        /\ VinPrefix(2) \in {"1D", "2D", "3D"} => last.result = "DODGE"
        /\ VinPrefix(2) \in {"1P", "2P", "3P"} => last.result = "PLYMOUTH"
        /\ VinPrefix(2) \in {"1G", "2G", "3G"} => last.result = "GM"

\* C15 witness: a VIN beginning 3GX, which the prefix table does not list, was
\* decoded to GM
C15_Witness ==
    /\ last.op = "get_manufacturer_from_vin"
    /\ last.vin = "3gXZ"
    /\ "3GX" \notin DOMAIN wmi_map
    /\ last.result = "GM"

\* C16: the decoder returns None exactly when the VIN has fewer than 3 characters
\* or neither its 3-character prefix is in the table nor its 2-character prefix in
\* the fallbacks; a VIN beginning with J, K, S, W, V or Z and an unlisted
\* 3-character prefix gives None.
C16_VinAbsent ==
    last.op = "get_manufacturer_from_vin" =>
        /\ last.result = None <=>
              \/ ~DecodedVin
              \/ VinPrefix(3) \notin DOMAIN wmi_map /\ VinPrefix(2) \notin TwoCharPrefixes
        /\ (/\ DecodedVin
            /\ VinPrefix(1) \in {"J", "K", "S", "W", "V", "Z"}
            /\ VinPrefix(3) \notin DOMAIN wmi_map) => last.result = None

\* C16 witness: a VIN beginning with the region letter W and an unlisted prefix was
\* decoded to None
C16_Witness ==
    /\ last.op = "get_manufacturer_from_vin"
    /\ last.vin = "wXPZ"
    /\ "WXP" \notin DOMAIN wmi_map
    /\ last.result = None

----------------------------------------------------------------------------
(* get_smart *)

\* The rows of the code the last get_smart call asked for
SmartRows ==
    {r \in store : last.op = "get_smart" /\ r.code \in CaseVariantsOf(last.code)}

\* The manufacturer get_smart resolves: the one given, else the one decoded from
\* the VIN, else None
ResolvedManufacturer ==
    IF Truthy(last.manufacturer) THEN last.manufacturer
    ELSE IF Truthy(last.vin) THEN get_manufacturer_from_vin(last.vin)
    ELSE None

\* The rows whose manufacturer is the resolved one, letter case set aside
MatchingRows ==
    {r \in SmartRows :
        ResolvedManufacturer # None /\ r.manufacturer \in CaseVariantsOf(ResolvedManufacturer)}

\* The manufacturer keys of the stores in ascending order
ManufacturersAscending == <<"BMW", "CHEVY", "FORD", "GENERIC">>

\* The place of a row in the fetched sequence: generic rows first, then by
\* manufacturer ascending
PlaceOf(r) ==
    LET rank == CHOOSE i \in 1..Len(ManufacturersAscending) :
                    ManufacturersAscending[i] = r.manufacturer
    IN  IF r.is_generic THEN rank ELSE Len(ManufacturersAscending) + rank

\* A returned definition is the definition of row r
IsRow(dtc, r) ==
    /\ dtc.code = r.code
    /\ dtc.manufacturer = r.manufacturer
    /\ dtc.description = r.description
    /\ dtc.is_generic = r.is_generic

\* The number of fetched rows that carry the description of r
Occurrences(r) == Cardinality({q \in SmartRows : q.description = r.description})

\* C17: primary rule (a). A fetched row whose manufacturer equals the resolved
\* manufacturer, letter case set aside, is the primary, also when a generic row
\* exists and is fetched before it.
C17_PrimaryExactMatch ==
    last.op = "get_smart" =>
        \A r \in MatchingRows : IsRow(last.smart.primary, r)

\* C17 witness: get_smart with the manufacturer in lower case chose the FORD row
\* although a generic row with another description exists
C17_Witness ==
    /\ last.op = "get_smart"
    /\ last.manufacturer = "ford"
    /\ \E r \in MatchingRows, g \in SmartRows :
          /\ r.manufacturer = "FORD"
          /\ g.is_generic /\ g.description # r.description
          /\ IsRow(last.smart.primary, r)

\* C18: primary rule (b). With no manufacturer resolved, or no fetched row of the
\* resolved manufacturer, and a generic row among the fetched rows, the primary is
\* the first generic row in fetched order, never a row that is not generic.
C18_PrimaryGeneric ==
    (/\ last.op = "get_smart"
     /\ MatchingRows = {}
     /\ \E g \in SmartRows : g.is_generic)
    => /\ last.smart.primary.is_generic
       /\ \E g \in SmartRows :
             /\ g.is_generic
             /\ \A h \in SmartRows : h.is_generic => PlaceOf(g) <= PlaceOf(h)
             /\ IsRow(last.smart.primary, g)

\* C18 witness: a manufacturer without a row was resolved, and the generic row was
\* chosen although another description is the most frequent one
C18_Witness ==
    /\ last.op = "get_smart"
    /\ ResolvedManufacturer # None
    /\ MatchingRows = {}
    /\ last.smart.primary.is_generic
    /\ \E r \in SmartRows : Occurrences(r) = 2 /\ r.description # last.smart.primary.description

\* C19: primary rule (c). With no row of the resolved manufacturer and no generic
\* row, the primary is the first fetched row that carries the description of the
\* most fetched rows; among descriptions with equally many rows the one whose first
\* row is fetched earliest wins.
C19_PrimaryMostCommon ==
    (/\ last.op = "get_smart"
     /\ SmartRows # {}
     /\ MatchingRows = {}
     /\ \A g \in SmartRows : ~g.is_generic)
    => \E p \in SmartRows :
          /\ IsRow(last.smart.primary, p)
          /\ \A r \in SmartRows : Occurrences(r) <= Occurrences(p)
          /\ \A r \in SmartRows :
                Occurrences(r) = Occurrences(p) => PlaceOf(p) <= PlaceOf(r)

\* C19 witness: of three rows without a generic one, the second was chosen: it is
\* the first with the description two rows share
C19_Witness ==
    /\ last.op = "get_smart"
    /\ MatchingRows = {}
    /\ Cardinality(SmartRows) = 3
    /\ \A g \in SmartRows : ~g.is_generic
    /\ last.smart.primary.manufacturer = "CHEVY"
    /\ \E r \in SmartRows : r.manufacturer = "BMW" /\ Occurrences(r) = 1

\* C20: alternatives. When definitions are found, the alternatives are all the
\* fetched rows but the primary, each once, in fetched order (generic rows first,
\* then manufacturer ascending): the primary is not among them and they are
\* total_definitions - 1.
C20_Alternatives ==
    (last.op = "get_smart" /\ SmartRows # {}) =>
        LET alternatives == last.smart.alternatives
            primary == last.smart.primary
        IN  /\ last.smart.total_definitions = Cardinality(SmartRows)
            /\ Len(alternatives) = last.smart.total_definitions - 1
            /\ \E p \in SmartRows : IsRow(primary, p)
            /\ \A i \in 1..Len(alternatives) : alternatives[i] # primary
            /\ \A r \in SmartRows :
                  IsRow(primary, r) \/ \E i \in 1..Len(alternatives) : IsRow(alternatives[i], r)
            /\ \A i, j \in 1..Len(alternatives) :
                  i < j => \E r, q \in SmartRows :
                              /\ IsRow(alternatives[i], r)
                              /\ IsRow(alternatives[j], q)
                              /\ PlaceOf(r) < PlaceOf(q)

\* C20 witness: of three definitions the last fetched one is the primary, and the
\* alternatives are the generic row followed by the BMW row
C20_Witness ==
    /\ last.op = "get_smart"
    /\ last.smart.total_definitions = 3
    /\ last.smart.primary.manufacturer = "FORD"
    /\ Len(last.smart.alternatives) = 2
    /\ last.smart.alternatives[1].is_generic
    /\ last.smart.alternatives[2].manufacturer = "BMW"

\* C21: totals and the empty case. total_definitions is the number of rows the
\* store holds for the code; the primary is absent exactly when that number is 0,
\* and then the alternatives are empty; the call ends normally.
C21_TotalsAndEmpty ==
    last.op = "get_smart" =>
        /\ last.smart.total_definitions = Cardinality(SmartRows)
        /\ last.smart.primary = NoPrimary <=> last.smart.total_definitions = 0
        /\ last.smart.total_definitions = 0 => last.smart.alternatives = <<>>
        /\ last.result # Raised

\* C21 witness: get_smart asked a store with rows for a code that has none, and
\* returned no primary and no alternatives
C21_Witness ==
    /\ last.op = "get_smart"
    /\ store # {}
    /\ last.code = "P1690"
    /\ last.smart.total_definitions = 0
    /\ last.smart.primary = NoPrimary
    /\ last.smart.alternatives = <<>>

\* C22: VIN inference. With the manufacturer absent and a VIN given, get_smart
\* returns what it returns for the manufacturer the VIN decodes to; when the VIN
\* does not decode, what it returns with neither manufacturer nor VIN.
C22_VinInference ==
    (last.op = "get_smart" /\ last.manufacturer = None /\ Truthy(last.vin)) =>
        /\ last.smart = get_smart(last.code, get_manufacturer_from_vin(last.vin), None)
        /\ get_manufacturer_from_vin(last.vin) = None =>
              last.smart = get_smart(last.code, None, None)

\* C22 witness: with no manufacturer and a VIN beginning 1G1, the CHEVY row was
\* chosen although a generic row with another description exists
C22_Witness ==
    /\ last.op = "get_smart"
    /\ last.manufacturer = None
    /\ last.vin = "1G1ZT53826F109149"
    /\ last.smart.primary.manufacturer = "CHEVY"
    /\ \E g \in SmartRows : g.is_generic /\ g.description # last.smart.primary.description

\* C23: is_manufacturer_specific is true exactly when the code, in upper case, has
\* 5 characters, begins with P and has 1 or 3 as its second character, whatever
\* the manufacturer, the VIN and the rows found.
C23_IsManufacturerSpecific ==
    last.op = "get_smart" =>
        LET c == UpperEach(last.code)
        IN  /\ last.smart.is_manufacturer_specific <=>
                  /\ Len(c) = 5
                  /\ SubSeq(c, 1, 1) = "P"
                  /\ SubSeq(c, 2, 2) \in {"1", "3"}
            /\ last.smart.is_manufacturer_specific <=> last.code \in {"P1690", "p1690", "P3400"}

\* C23 witness: the flag was set for P3400, for which the store has no rows
C23_Witness ==
    /\ last.op = "get_smart"
    /\ last.code = "P3400"
    /\ last.smart.total_definitions = 0
    /\ last.smart.is_manufacturer_specific

\* C29: a manufacturer that is given and not empty takes precedence over the VIN:
\* get_smart returns the same result for every VIN.
C29_ManufacturerBeforeVin ==
    (last.op = "get_smart" /\ Truthy(last.manufacturer)) =>
        \A vin \in SmartVinInputs :
            get_smart(last.code, last.manufacturer, vin) = last.smart

\* C29 witness: BMW was given with a VIN that decodes to CHEVY; the BMW row is the
\* primary although a CHEVY row with another description exists
C29_Witness ==
    /\ last.op = "get_smart"
    /\ last.manufacturer = "BMW"
    /\ last.vin = "1G1ZT53826F109149"
    /\ last.smart.primary.manufacturer = "BMW"
    /\ \E r \in SmartRows :
          r.manufacturer = "CHEVY" /\ r.description # last.smart.primary.description

----------------------------------------------------------------------------
(* analyze_code *)

\* The rows of the code the last analyze_code call asked for
AnalyzedRows ==
    {r \in store : last.op = "analyze_code" /\ r.code \in CaseVariantsOf(last.code)}

\* The sum of count over the entries of a variations list
RECURSIVE SumOfCounts(_)
SumOfCounts(variations) ==
    IF Len(variations) = 0 THEN 0
    ELSE Head(variations).count + SumOfCounts(Tail(variations))

\* The place at which a description is first seen while the rows of the code are
\* read in ascending order of manufacturer
FirstSeen(description) ==
    LET places == {i \in 1..Len(ManufacturersAscending) :
                      \E r \in AnalyzedRows :
                          /\ r.manufacturer = ManufacturersAscending[i]
                          /\ r.description = description}
    IN  CHOOSE i \in places : \A j \in places : i <= j

\* C24: the counts of analyze are consistent. The counts of the variations add up
\* to total_manufacturers, which is the number of rows of the code;
\* unique_descriptions is the number of variations; the count of a variation is
\* the number of its manufacturers; no two variations share a description.
C24_AnalyzeCounts ==
    last.op = "analyze_code" =>
        LET variations == last.analysis.variations
        IN  /\ SumOfCounts(variations) = last.analysis.total_manufacturers
            /\ last.analysis.total_manufacturers = Cardinality(AnalyzedRows)
            /\ last.analysis.unique_descriptions = Len(variations)
            /\ \A i \in 1..Len(variations) :
                  variations[i].count = Len(variations[i].manufacturers)
            /\ \A i, j \in 1..Len(variations) :
                  variations[i].description = variations[j].description => i = j

\* C24 witness: three rows of a code were analyzed into two variations, one of them
\* with two manufacturers
C24_Witness ==
    /\ last.op = "analyze_code"
    /\ last.analysis.total_manufacturers = 3
    /\ last.analysis.unique_descriptions = 2
    /\ \E i \in 1..Len(last.analysis.variations) : last.analysis.variations[i].count = 2

\* C25: the order of the variations. The counts do not increase along the list,
\* and of two variations with the same count the one whose description was seen
\* first among the rows of the code comes first.
C25_AnalyzeOrder ==
    last.op = "analyze_code" =>
        LET variations == last.analysis.variations
        IN  \A i, j \in 1..Len(variations) :
                i < j =>
                    /\ variations[i].count >= variations[j].count
                    /\ variations[i].count = variations[j].count =>
                          FirstSeen(variations[i].description)
                              < FirstSeen(variations[j].description)

\* C25 witness: the description seen first has one row and stands second, behind
\* the description that two rows share
C25_Witness ==
    /\ last.op = "analyze_code"
    /\ Len(last.analysis.variations) = 2
    /\ last.analysis.variations[1].count = 2
    /\ last.analysis.variations[2].count = 1
    /\ FirstSeen(last.analysis.variations[2].description)
          < FirstSeen(last.analysis.variations[1].description)

----------------------------------------------------------------------------
(* get_manufacturer_codes *)

\* The manufacturer names stored in the database
StoredManufacturers == {r.manufacturer : r \in store}

\* The rows of the store that a manufacturer query for the looked-up name selects
RowsOfManufacturer ==
    {r \in store : /\ r.manufacturer = normalize_manufacturer(last.manufacturer)
                   /\ r.locale = locale}

\* C26 as stated: for every manufacturer name stored in the database,
\* get_manufacturer_codes(M, limit) returns at most limit items and the
\* manufacturer field of every returned item equals the trimmed, uppercased M.
C26_ManufacturerCodesAsStated ==
    (/\ last.op = "get_manufacturer_codes"
     /\ normalize_manufacturer(last.manufacturer) \in StoredManufacturers)
    => /\ Len(last.dtcs) <= last.limit
       /\ \A i \in 1..Len(last.dtcs) :
             last.dtcs[i].manufacturer = normalize_manufacturer(last.manufacturer)

\* C26 amended: for every manufacturer name stored in the database and every
\* limit that is not negative, get_manufacturer_codes(M, limit) returns at most
\* limit items (a negative limit returns every row of M); every returned item
\* is a row of the trimmed, uppercased M in the current locale, and its
\* manufacturer field equals that name, except that the items of GENERIC carry
\* an absent manufacturer and is_generic set.
C26_ManufacturerCodes ==
    (/\ last.op = "get_manufacturer_codes"
     /\ normalize_manufacturer(last.manufacturer) \in StoredManufacturers)
    => /\ last.limit >= 0 => Len(last.dtcs) <= last.limit
       /\ last.limit < 0 => Len(last.dtcs) = Cardinality(RowsOfManufacturer)
       /\ \A i \in 1..Len(last.dtcs) :
             /\ \E r \in RowsOfManufacturer :
                   /\ r.code = last.dtcs[i].code
                   /\ r.description = last.dtcs[i].description
             /\ IF normalize_manufacturer(last.manufacturer) = GENERIC
                THEN last.dtcs[i].manufacturer = None /\ last.dtcs[i].is_generic
                ELSE last.dtcs[i].manufacturer = normalize_manufacturer(last.manufacturer)

\* C26 witness: a query for " FORD " with limit 1 on a store holding two FORD
\* rows returns the one FORD item with the smaller code.
C26_Witness ==
    /\ last.op = "get_manufacturer_codes"
    /\ last.manufacturer = " FORD "
    /\ last.limit = 1
    /\ Cardinality(RowsOfManufacturer) = 2
    /\ Len(last.dtcs) = 1
    /\ last.dtcs[1].manufacturer = "FORD"
    /\ last.dtcs[1].code = "P0171"

----------------------------------------------------------------------------
(* The two lookups side by side *)

\* C27: for every store, code and present manufacturer M (a name that is not
\* empty and has no blanks around it),
\* PerfectDTCDatabase.get_for_manufacturer(code, M) returns what
\* DTCDatabase.get_description(code, M) returns on the same store: the same
\* description or both nothing, also for NISSAN and for the GM brand family.
C27_SameFallbackPolicy ==
    (/\ last.op = "get_for_manufacturer"
     /\ last.manufacturer \notin {None, ""}
     /\ Strip(last.manufacturer) = last.manufacturer)
    => last.result = get_description(last.code, last.manufacturer).result

----------------------------------------------------------------------------
(* set_locale and the cache *)

\* The descriptions the store holds for a code in a locale
DescriptionsUnder(code, loc) ==
    {r.description : r \in {q \in store : q.code = code /\ q.locale = loc}}

\* Every cache entry was stored under the current locale, with a description
\* of its code in that locale
CacheOfCurrentLocale ==
    \A i \in 1..Len(cache) :
        /\ cache[i].key[3] = locale
        /\ cache[i].value \in DescriptionsUnder(cache[i].key[1], locale)

\* A description returned by get_description is one of the current locale
ResultOfCurrentLocale ==
    (last.op = "get_description" /\ last.result # None)
    => last.result \in DescriptionsUnder(normalize_code(last.code), locale)

\* What a set_locale step does to the locale and the cache
SetLocaleStep ==
    last'.op = "set_locale"
    => IF last'.new_locale # "" /\ last'.new_locale # locale
       THEN locale' = last'.new_locale /\ cache' = <<>>
       ELSE locale' = locale /\ cache' = cache

====
